---- MODULE Spec2Model ----
(***************************************************************************)
(* A model of jpcorpreg (src/jpcorpreg/client.py, src/jpcorpreg/writer.py):*)
(* the era-date converter, the catalog resolvers, the download pipeline    *)
(* with its temp files, and the two materializations of the data file.     *)
(*                                                                         *)
(* Text is modelled as a sequence of characters.  A character is a string: *)
(* an ASCII letter or digit stands for itself, and a kanji is written by   *)
(* its reading ("rei" "wa" = the Reiwa marker, "hei" "sei" = the Heisei   *)
(* marker, "gan" = the first-year glyph, "nen" "gatsu" "nichi" = the year, *)
(* month and day suffixes).                                                *)
(*                                                                         *)
(* Library calls (re.search, str.capitalize, requests, tempfile, zipfile,  *)
(* pyarrow.csv, pyarrow.dataset.write_dataset) are modelled by what they   *)
(* do for the arguments the code gives them.  Of a written dataset the     *)
(* model keeps the files, their columns and rows, not their row groups.    *)
(***************************************************************************)
EXTENDS Integers, Sequences, FiniteSets, TLC

VARIABLES
    raw_date,     \* SpecDate: the argument of _convert_japanese_date
    converted,    \* SpecDate: "unset" before the call, then its return value
    pc,           \* where the current client call stands
    callNo,       \* how many client calls have been started
    call,         \* the current call: operation and arguments
    response,     \* what the GET of this call came back with
    soup,         \* the parsed page and
    token,        \*   the token _get_page_and_token returned
    payload,      \* the parameters of the POST
    post_status,  \* how the POST of this call went
    zip_path,     \* the archive temp file _download_zip returned
    csv_file_path,\* the data temp file uncompress_and_parse extracted
    pending,      \* what uncompress_and_parse returned or raised
    outcome,      \* what the client call returned or raised
    files,        \* the temp files on disk: name -> content
    dirs,         \* the dataset directories on disk: name -> files
    gets,         \* GET requests issued by this call
    posts,        \* POST requests issued by this call
    trace,        \* the steps of this call, in order
    t_csv,        \* SpecTable: the extracted data file
    t_existing,   \* SpecTable: the files already in the output directory
    t_partition,  \* SpecTable: partition_cols
    t_block,      \* SpecTable: the streaming reader's block size, in rows
    df_out,       \* SpecTable: what _parse_to_df returned
    ds_out        \* SpecTable: what _parse_to_parquet_dataset wrote

dateVars == <<raw_date, converted>>

tableVars == <<t_csv, t_existing, t_partition, t_block, df_out, ds_out>>

pipeVars == <<pc, callNo, call, response, soup, token, payload, post_status,
              zip_path, csv_file_path, pending, outcome, files, dirs, gets,
              posts, trace>>

vars == <<dateVars, tableVars, pipeVars>>

\* Python's None where a text is expected: no text holds the character "None"
None == <<"None">>
Unset == <<"unset">>

(***************************************************************************)
(* Bounds of the model.                                                    *)
(***************************************************************************)
MaxYearDigits == 2     \* longest digit run generated for the year field
MaxMonthDigits == 3    \* longest digit run generated for the month field
MaxDayDigits == 2      \* longest digit run generated for the day field
MaxCalls == 2          \* client calls made one after the other
MaxRows == 3           \* rows of a generated data file

(***************************************************************************)
(* Characters.                                                             *)
(***************************************************************************)
Digits == <<"0", "1", "2", "3", "4", "5", "6", "7", "8", "9">>

DigitSet == {Digits[k] : k \in 1..10}

\* what \d matches
IsDigit(c) == c \in DigitSet

DigitVal(c) == (CHOOSE k \in 1..10 : Digits[k] = c) - 1

\* int(s) of a non-empty digit string, most significant digit first
RECURSIVE ParseInt(_)
ParseInt(s) ==
    IF s = <<>> THEN 0
    ELSE 10 * ParseInt(SubSeq(s, 1, Len(s) - 1)) + DigitVal(s[Len(s)])

\* str(n) of a natural number
RECURSIVE ToDigits(_)
ToDigits(n) ==
    IF n < 10 THEN <<Digits[n + 1]>>
    ELSE ToDigits(n \div 10) \o <<Digits[(n % 10) + 1]>>

RECURSIVE Zeros(_)
Zeros(k) == IF k <= 0 THEN <<>> ELSE <<"0">> \o Zeros(k - 1)

\* f"{n:0<w>d}": zero-padded on the left to at least w characters, never cut
ZeroPad(n, w) == Zeros(w - Len(ToDigits(n))) \o ToDigits(n)

(***************************************************************************)
(* The two regular expressions of _convert_japanese_date,                  *)
(*     <marker>(\d+|gan)nen(\d+)gatsu(\d+)nichi                            *)
(* searched (re.search) in the text: the leftmost start wins, the          *)
(* alternation tries the digit run before the glyph, and \d+ is greedy.    *)
(***************************************************************************)
Reiwa == <<"rei", "wa">>
Heisei == <<"hei", "sei">>

\* the text has character c at position p
At(s, p, c) == p >= 1 /\ p <= Len(s) /\ s[p] = c

\* the length of the digit run that starts at position p (0 if none)
RECURSIVE RunLen(_, _)
RunLen(s, p) ==
    IF p >= 1 /\ p <= Len(s) /\ IsDigit(s[p]) THEN 1 + RunLen(s, p + 1) ELSE 0

\* the lengths k >= 1 that \d+ can take at p so that character c follows it
DigitsThen(s, p, c) == {k \in 1..RunLen(s, p) : At(s, p + k, c)}

\* the ways group 1 and the year suffix can match at p: a digit run, or the
\* first-year glyph
YearTokens(s, p) ==
    {[len |-> k, gan |-> FALSE] : k \in DigitsThen(s, p, "nen")}
        \cup (IF At(s, p, "gan") /\ At(s, p + 1, "nen")
              THEN {[len |-> 1, gan |-> TRUE]} ELSE {})

\* every way the whole pattern matches with the marker at position i
MatchesAt(s, marker, i) ==
    IF ~(At(s, i, marker[1]) /\ At(s, i + 1, marker[2])) THEN {}
    ELSE UNION { UNION {
            {[y |-> y, mlen |-> ml, dlen |-> dl] :
                dl \in DigitsThen(s, i + 2 + y.len + 1 + ml + 1, "nichi")} :
            ml \in DigitsThen(s, i + 2 + y.len + 1, "gatsu")} :
            y \in YearTokens(s, i + 2)}

\* m1 is tried no later than m2 by the backtracking matcher at the same start:
\* the digit alternative before the glyph, and each \d+ longest first
Preferred(m1, m2) ==
    \/ (~m1.y.gan /\ m2.y.gan)
    \/ (m1.y.gan = m2.y.gan /\ m1.y.len > m2.y.len)
    \/ (m1.y = m2.y /\ m1.mlen > m2.mlen)
    \/ (m1.y = m2.y /\ m1.mlen = m2.mlen /\ m1.dlen >= m2.dlen)

NoMatch == [found |-> FALSE]

\* the first position from i on where the pattern matches (0 if none)
RECURSIVE FirstStart(_, _, _)
FirstStart(s, marker, i) ==
    IF i > Len(s) THEN 0
    ELSE IF MatchesAt(s, marker, i) # {} THEN i
    ELSE FirstStart(s, marker, i + 1)

\* re.search: no match, or the match object (the group texts)
ReSearch(s, marker) ==
    LET i == FirstStart(s, marker, 1)
    IN  IF i = 0 THEN NoMatch
        ELSE
          LET ms == MatchesAt(s, marker, i)
              m == CHOOSE a \in ms : \A b \in ms : Preferred(a, b)
              pn == i + 2 + m.y.len
              pg == pn + 1 + m.mlen
          IN  [found |-> TRUE,
               g1 |-> SubSeq(s, i + 2, pn - 1),
               g2 |-> SubSeq(s, pn + 1, pg - 1),
               g3 |-> SubSeq(s, pg + 1, pg + m.dlen)]

ReiwaOffset == 2018
HeiseiOffset == 1988

YearValGlyphUnread(g1) == IF g1 = <<"gan">> THEN 0 ELSE ParseInt(g1)

\* year_val = 1 if group(1) == gan else int(group(1))
YearVal(g1) == IF g1 = <<"gan">> THEN 1 ELSE ParseInt(g1)

\* f"{year_val + offset:04d}{int(group(2)):02d}{int(group(3)):02d}"
FormatDate(m, offset) ==
    ZeroPad(YearVal(m.g1) + offset, 4)
        \o ZeroPad(ParseInt(m.g2), 2) \o ZeroPad(ParseInt(m.g3), 2)

\* _convert_japanese_date(raw_date)
_convert_japanese_date(raw) ==
    LET match_reiwa == ReSearch(raw, Reiwa)
        match_heisei == ReSearch(raw, Heisei)
    IN  IF match_reiwa.found THEN FormatDate(match_reiwa, ReiwaOffset)
        ELSE IF match_heisei.found THEN FormatDate(match_heisei, HeiseiOffset)
        ELSE None

(***************************************************************************)
(* Letter case and whitespace (str.capitalize, str.strip, re.IGNORECASE).  *)
(* Only the letters the model's names use have a case pair; every other    *)
(* character (digits, kanji, punctuation) has none and is left alone.      *)
(***************************************************************************)
LowerLetters == <<"a", "c", "e", "h", "i", "l", "m", "o", "r", "s", "t", "v">>
UpperLetters == <<"A", "C", "E", "H", "I", "L", "M", "O", "R", "S", "T", "V">>

ToUpper(c) ==
    IF \E k \in 1..Len(LowerLetters) : LowerLetters[k] = c
    THEN UpperLetters[CHOOSE k \in 1..Len(LowerLetters) : LowerLetters[k] = c]
    ELSE c

ToLower(c) ==
    IF \E k \in 1..Len(UpperLetters) : UpperLetters[k] = c
    THEN LowerLetters[CHOOSE k \in 1..Len(UpperLetters) : UpperLetters[k] = c]
    ELSE c

capitalizeFirstOnly(s) ==
    [p \in 1..Len(s) |-> IF p = 1 THEN ToUpper(s[p]) ELSE s[p]]

\* str.capitalize(): first character upper-cased, the rest lower-cased
capitalize(s) ==
    [p \in 1..Len(s) |-> IF p = 1 THEN ToUpper(s[p]) ELSE ToLower(s[p])]

\* str.strip(): leading and trailing blanks removed
RECURSIVE strip(_)
strip(s) ==
    IF s = <<>> THEN s
    ELSE IF s[1] = " " THEN strip(Tail(s))
    ELSE IF s[Len(s)] = " " THEN strip(SubSeq(s, 1, Len(s) - 1))
    ELSE s

(***************************************************************************)
(* PREF_MAP, three of its entries: nationwide, Mie and overseas.           *)
(***************************************************************************)
Zenkoku == <<"k_zen", "k_koku">>
MieKen == <<"k_mi", "k_e", "k_ken">>
Kokugai == <<"k_koku", "k_gai">>

PREF_MAP ==
    (Zenkoku :> <<"A", "l", "l">>)
        @@ (MieKen :> <<"M", "i", "e">>)
        @@ (Kokugai :> <<"O", "t", "h", "e", "r">>)

\* PREF_MAP.get(name, name)
PrefMapGet(name) == IF name \in DOMAIN PREF_MAP THEN PREF_MAP[name] ELSE name

(***************************************************************************)
(* Markup.  An anchor's onclick attribute is modelled by what              *)
(* re.search(r'\d{5}', onclick) finds in it: a 5-digit identifier, or      *)
(* NoId when the anchor, the attribute or the digits are missing.          *)
(***************************************************************************)
NoId == "no-id"
NoTag == <<"no-tag">>      \* find() returned None

\* _fetch_zenken_file_ids over the rows of the second tbl02 block, in order;
\* ids is the dict built so far.  A row without its dt makes .text fail.
RECURSIVE ZenkenRows(_, _)
ZenkenRows(rows, ids) ==
    IF rows = <<>> THEN [err |-> "none", ids |-> ids]
    ELSE
      LET row == rows[1]
      IN  IF row.dt = NoTag THEN [err |-> "AttributeError", ids |-> ids]
          ELSE
            LET region_name == PrefMapGet(strip(row.dt))
            IN  IF row.onclick = NoId THEN ZenkenRows(Tail(rows), ids)
                ELSE ZenkenRows(Tail(rows),
                        [k \in (DOMAIN ids) \cup {region_name} |->
                            IF k = region_name THEN row.onclick ELSE ids[k]])

EmptyDict == [k \in {} |-> NoId]

\* _fetch_zenken_file_ids(soup), page being the soup
_fetch_zenken_file_ids(page) ==
    IF ~page.inBox21 THEN [err |-> "AttributeError", ids |-> EmptyDict]
    ELSE IF page.tbl02 < 2 THEN [err |-> "IndexError", ids |-> EmptyDict]
    ELSE ZenkenRows(page.rows, EmptyDict)

RECURSIVE SabunRowsLastWins(_, _)
SabunRowsLastWins(rows, target_date) ==
    IF rows = <<>> THEN NoId
    ELSE
      LET tr == rows[Len(rows)]
          earlier == SubSeq(rows, 1, Len(rows) - 1)
      IN  IF tr.th = NoTag \/ ~tr.td THEN SabunRowsLastWins(earlier, target_date)
          ELSE IF tr.onclick # NoId
                  /\ (target_date = None
                        \/ _convert_japanese_date(strip(tr.th)) = target_date)
               THEN tr.onclick
               ELSE SabunRowsLastWins(earlier, target_date)

\* the loop of _fetch_sabun_file_id over the tr rows, in document order:
\* the identifier of the first row that has both cells and an identifier and,
\* when a date is asked for, whose converted date equals it; NoId if none
RECURSIVE SabunRows(_, _)
SabunRows(rows, target_date) ==
    IF rows = <<>> THEN NoId
    ELSE
      LET tr == rows[1]
      IN  IF tr.th = NoTag \/ ~tr.td THEN SabunRows(Tail(rows), target_date)
          ELSE
            LET parsed_date == _convert_japanese_date(strip(tr.th))
            IN  IF tr.onclick # NoId
                   /\ (target_date = None \/ parsed_date = target_date)
                THEN tr.onclick
                ELSE SabunRows(Tail(rows), target_date)

_fetch_sabun_file_id_or_latest(page, target_date) ==
    LET found == IF page.header /\ page.table
                 THEN SabunRows(page.rows, target_date) ELSE NoId
        latest == IF page.header /\ page.table
                  THEN SabunRows(page.rows, None) ELSE NoId
    IN  IF found # NoId THEN [err |-> "none", file_id |-> found]
        ELSE IF latest # NoId THEN [err |-> "none", file_id |-> latest]
        ELSE [err |-> "ValueError:latest", file_id |-> NoId]

\* _fetch_sabun_file_id(soup, target_date)
_fetch_sabun_file_id(page, target_date) ==
    LET found == IF page.header /\ page.table
                 THEN SabunRows(page.rows, target_date) ELSE NoId
    IN  IF found # NoId THEN [err |-> "none", file_id |-> found]
        ELSE IF target_date = None
            THEN [err |-> "ValueError:latest", file_id |-> NoId]
        ELSE [err |-> "ValueError:date", file_id |-> NoId]

(***************************************************************************)
(* CorporateDataWriter: the schema and the two materializations.           *)
(* A data file is a sequence of rows, a row a sequence of field texts.     *)
(* headers stands for the configured column-name list (three of its names).*)
(***************************************************************************)
headers == <<"corporate_number", "name", "prefecture_name">>

\* self.schema: one string field per header
schema == [i \in 1..Len(headers) |-> [name |-> headers[i], type |-> "string"]]

NumericTexts == {"1000013050238", "24"}

\* the type the CSV reader infers for a column no schema field names
InferType(values) ==
    IF values # {} /\ values \subseteq NumericTexts THEN "int64" ELSE "string"

\* ConvertOptions(column_types=sch): the schema's type for a named column,
\* the inferred one otherwise
ColumnType(sch, name, values) ==
    IF \E i \in 1..Len(sch) : sch[i].name = name
    THEN sch[CHOOSE i \in 1..Len(sch) : sch[i].name = name].type
    ELSE InferType(values)

\* a block of rows parsed under ReadOptions(column_names) and
\* ConvertOptions(column_types): a row of another width is a parse error
ParseRows(rows, column_names, sch) ==
    IF \E r \in 1..Len(rows) : Len(rows[r]) # Len(column_names)
    THEN [err |-> "ArrowInvalid"]
    ELSE [err |-> "none",
          columns |-> column_names,
          types |-> [c \in 1..Len(column_names) |->
                        ColumnType(sch, column_names[c],
                                   {rows[r][c] : r \in 1..Len(rows)})],
          rows |-> rows]

\* _parse_to_df(csv_file_path): the whole file in one pass
_parse_to_df(csv) == ParseRows(csv, headers, schema)

RECURSIVE BatchesFullOnly(_, _)
BatchesFullOnly(rows, n) ==
    IF Len(rows) < n THEN <<>>
    ELSE <<SubSeq(rows, 1, n)>> \o BatchesFullOnly(SubSeq(rows, n + 1, Len(rows)), n)

\* the record batches the streaming reader yields: consecutive blocks of at
\* most n rows
RECURSIVE Batches(_, _)
Batches(rows, n) ==
    IF Len(rows) <= n THEN <<rows>>
    ELSE <<SubSeq(rows, 1, n)>> \o Batches(SubSeq(rows, n + 1, Len(rows)), n)

\* max_rows_per_file, scaled down from 1_000_000
MaxRowsPerFile == 2

\* positions of the named columns in a column list (0 if absent)
IndexOf(columns, name) ==
    IF \E i \in 1..Len(columns) : columns[i] = name
    THEN CHOOSE i \in 1..Len(columns) : columns[i] = name
    ELSE 0

RECURSIVE Without(_, _)
\* the sequence q without the positions in the set drop
Without(q, drop) ==
    IF q = <<>> THEN <<>>
    ELSE Without(SubSeq(q, 1, Len(q) - 1), drop)
            \o (IF Len(q) \in drop THEN <<>> ELSE <<q[Len(q)]>>)

\* one row of a batch written by the dataset writer w: the row goes to the
\* directory named by its partition values, without the partition columns,
\* into that directory's open file, a new file part-{i} being opened (over
\* any existing file of that name) when there is none or it is full
WriteRow(w, batch, r, pidx) ==
    LET row == batch.rows[r]
        dir == [k \in 1..Len(pidx) |-> row[pidx[k]]]
        drop == {pidx[k] : k \in 1..Len(pidx)}
        fresh == dir \notin DOMAIN w.cur
                    \/ Len(w.files[w.cur[dir]].rows) >= MaxRowsPerFile
        i == IF dir \in DOMAIN w.next THEN w.next[dir] ELSE 0
        path == IF fresh THEN [dir |-> dir, part |-> i] ELSE w.cur[dir]
        before == IF fresh
                  THEN [columns |-> Without(batch.columns, drop),
                        types |-> Without(batch.types, drop),
                        rows |-> <<>>]
                  ELSE w.files[path]
        after == [before EXCEPT !.rows = Append(@, Without(row, drop))]
    IN  [files |-> [f \in (DOMAIN w.files) \cup {path} |->
                        IF f = path THEN after ELSE w.files[f]],
         cur |-> [d \in (DOMAIN w.cur) \cup {dir} |->
                        IF d = dir THEN path ELSE w.cur[d]],
         next |-> [d \in (DOMAIN w.next) \cup {dir} |->
                        IF d = dir THEN (IF fresh THEN i + 1 ELSE i)
                        ELSE w.next[d]]]

RECURSIVE WriteBatch(_, _, _, _)
WriteBatch(w, batch, r, pidx) ==
    IF r > Len(batch.rows) THEN w
    ELSE WriteBatch(WriteRow(w, batch, r, pidx), batch, r + 1, pidx)

\* ds.write_dataset(reader, ...): the batches are parsed and written one after
\* the other; a parse error ends the write with what was written so far
RECURSIVE WriteDataset(_, _, _)
WriteDataset(w, batches, pidx) ==
    IF batches = <<>> THEN [err |-> "none", files |-> w.files]
    ELSE
      LET batch == ParseRows(batches[1], headers, schema)
      IN  IF batch.err # "none" THEN [err |-> batch.err, files |-> w.files]
          ELSE WriteDataset(WriteBatch(w, batch, 1, pidx), Tail(batches), pidx)

NoFiles == [f \in {} |-> <<>>]

\* _parse_to_parquet_dataset(csv_file_path, output_dir, partition_cols), with
\* existing the files already in output_dir and n the reader's block size in
\* rows; partitioning = partition_cols if partition_cols else None
_parse_to_parquet_dataset(csv, existing, partition_cols, n) ==
    LET partitioning == IF partition_cols = None \/ partition_cols = <<>>
                        THEN <<>> ELSE partition_cols
        pidx == [k \in 1..Len(partitioning) |-> IndexOf(headers, partitioning[k])]
    IN  IF \E k \in 1..Len(pidx) : pidx[k] = 0
        THEN [err |-> "ArrowInvalid", files |-> existing]
        ELSE WriteDataset([files |-> existing,
                           cur |-> [d \in {} |-> 0],
                           next |-> [d \in {} |-> 0]],
                          Batches(csv, n), pidx)

(***************************************************************************)
(* The remote site: the pages a GET can return, how a request can fail,    *)
(* and the archives a POST can stream.                                     *)
(***************************************************************************)
NoToken == "no-token"

\* the date texts of the repository's test (Reiwa 8-2-20, Heisei 31-4-30)
SampleReiwa == <<"rei", "wa", "8", "nen", "2", "gatsu", "2", "0", "nichi">>
SampleHeisei == <<"hei", "sei", "3", "1", "nen", "4", "gatsu", "3", "0", "nichi">>

Padded(text) == <<" ">> \o text \o <<" ">>

ShinKen == <<"k_shin", "k_ken">>      \* a name PREF_MAP does not hold

\* the full-snapshot page: the hidden token field, the inBox21 container, the
\* number of tbl02 blocks in it, and the dl rows of the second block
ZenkenPages ==
    {[token |-> "t1", inBox21 |-> TRUE, tbl02 |-> 2,
      rows |-> <<[dt |-> Padded(Zenkoku), onclick |-> "00001"],
                 [dt |-> MieKen, onclick |-> "00024"],
                 [dt |-> ShinKen, onclick |-> "00099"]>>],
     [token |-> "t2", inBox21 |-> TRUE, tbl02 |-> 2,
      rows |-> <<[dt |-> Zenkoku, onclick |-> "00002"],
                 [dt |-> MieKen, onclick |-> NoId],
                 [dt |-> <<"M", "I", "E">>, onclick |-> "00025"],
                 [dt |-> Zenkoku, onclick |-> "00003"]>>],
     [token |-> NoToken, inBox21 |-> TRUE, tbl02 |-> 2,
      rows |-> <<[dt |-> MieKen, onclick |-> "00024"]>>],
     [token |-> "t1", inBox21 |-> FALSE, tbl02 |-> 0, rows |-> <<>>],
     [token |-> "t1", inBox21 |-> TRUE, tbl02 |-> 1, rows |-> <<>>],
     [token |-> "t2", inBox21 |-> TRUE, tbl02 |-> 2,
      rows |-> <<[dt |-> MieKen, onclick |-> "00024"],
                 [dt |-> NoTag, onclick |-> "00001"]>>]}

\* the differential page: the token field, the csv-unicode header, the
\* tbl03 table with its tbody, and the tr rows (th text, td, the anchor's id)
SabunPages ==
    {[token |-> "t1", header |-> TRUE, table |-> TRUE,
      rows |-> <<[th |-> Padded(SampleReiwa), td |-> TRUE, onclick |-> "10001"],
                 [th |-> SampleHeisei, td |-> TRUE, onclick |-> "10002"]>>],
     [token |-> "t2", header |-> TRUE, table |-> TRUE,
      rows |-> <<[th |-> <<"x">>, td |-> TRUE, onclick |-> "10003"],
                 [th |-> SampleReiwa, td |-> TRUE, onclick |-> NoId],
                 [th |-> SampleReiwa, td |-> TRUE, onclick |-> "10004"],
                 [th |-> SampleReiwa, td |-> TRUE, onclick |-> "10005"]>>],
     [token |-> "t1", header |-> TRUE, table |-> TRUE,
      rows |-> <<[th |-> NoTag, td |-> TRUE, onclick |-> "10006"],
                 [th |-> SampleHeisei, td |-> FALSE, onclick |-> NoId]>>],
     [token |-> "t1", header |-> TRUE, table |-> TRUE, rows |-> <<>>],
     [token |-> "t2", header |-> FALSE, table |-> TRUE,
      rows |-> <<[th |-> SampleReiwa, td |-> TRUE, onclick |-> "10001"]>>],
     [token |-> "t2", header |-> TRUE, table |-> FALSE,
      rows |-> <<[th |-> SampleReiwa, td |-> TRUE, onclick |-> "10001"]>>],
     [token |-> NoToken, header |-> TRUE, table |-> TRUE,
      rows |-> <<[th |-> SampleReiwa, td |-> TRUE, onclick |-> "10001"]>>]}

\* the requests.exceptions.RequestException raised by a GET or POST that
\* fails: a timeout, a connection error, or raise_for_status on a non-2xx
RequestFailures == {"Timeout", "ConnectionError", "HTTPError"}

\* the RequestException iter_content raises when the stream breaks
StreamFailures == {"ChunkedEncodingError", "ConnectionError"}

GoodFile ==
    << <<"1000013050238", "a", "Mie">>,
       <<"24", "b", "Mie">>,
       <<"24", "c", "Oita">> >>

OtherFile == << <<"24", "z", "Oita">> >>

BadFile == << <<"24", "b", "Mie">>, <<"24", "c">> >>

DotCsv == <<".", "c", "s", "v">>

\* an archive: whether zipfile can open it, and its members in listing order
\* (name, decompressed rows, whether reading the member fails)
Archives ==
    {[valid |-> TRUE,
      members |-> <<[name |-> <<"d">> \o DotCsv, rows |-> GoodFile, corrupt |-> FALSE]>>],
     [valid |-> TRUE,
      members |-> <<[name |-> <<"r", ".", "t", "x", "t">>, rows |-> OtherFile, corrupt |-> FALSE],
                    [name |-> <<"D", ".", "C", "s", "V">>, rows |-> GoodFile, corrupt |-> FALSE],
                    [name |-> <<"e">> \o DotCsv, rows |-> OtherFile, corrupt |-> FALSE]>>],
     [valid |-> TRUE,
      members |-> <<[name |-> <<"c", "s", "v">>, rows |-> GoodFile, corrupt |-> FALSE],
                    [name |-> DotCsv \o <<"x">>, rows |-> GoodFile, corrupt |-> FALSE]>>],
     [valid |-> TRUE,
      members |-> <<[name |-> <<"d">> \o DotCsv, rows |-> GoodFile, corrupt |-> TRUE]>>],
     [valid |-> TRUE,
      members |-> <<[name |-> <<"d">> \o DotCsv, rows |-> BadFile, corrupt |-> FALSE]>>],
     [valid |-> FALSE, members |-> <<>>]}

\* what is on disk of an archive whose stream broke
TruncatedZip == [valid |-> FALSE, members |-> <<>>]

(***************************************************************************)
(* The steps of the client, as functions of what they are given.           *)
(***************************************************************************)
Raise(exc) == [kind |-> "raise", exc |-> exc]
Return(value) == [kind |-> "return", value |-> value]
Nothing == [kind |-> "none"]

OnRequestExceptionReraised(e) == Raise(e)

\* how a RequestException caught by the client ends the request:
\* raise SystemExit(...) from e
OnRequestException(e) == Raise("SystemExit")

\* the token check of _get_page_and_token on a fetched page
TokenOf(page) ==
    IF page.token = NoToken THEN Raise("ValueError:token")
    ELSE Return(page.token)

RegionLookupDefaulted(pref_list, prefecture) ==
    LET capitalized_pref == capitalize(prefecture)
    IN  IF capitalized_pref \notin DOMAIN pref_list
        THEN Return(NoId)
        ELSE Return(pref_list[capitalized_pref])

\* lines 121-125 of _download_and_process: the region lookup
RegionLookup(pref_list, prefecture) ==
    LET capitalized_pref == capitalize(prefecture)
    IN  IF capitalized_pref \notin DOMAIN pref_list
        THEN Raise("ValueError:region")
        ELSE Return(pref_list[capitalized_pref])

EndsWithCsvUnanchored(n) ==
    \E q \in 1..(Len(n) - 3) : [p \in 1..4 |-> ToLower(n[q + p - 1])] = DotCsv

\* re.search(r"\.csv$", n, re.IGNORECASE): the name ends in .csv, in any
\* case ($ also matches before one final newline)
EndsWithCsv(n) ==
    LET m == IF n # <<>> /\ n[Len(n)] = "\n" THEN SubSeq(n, 1, Len(n) - 1) ELSE n
    IN  /\ Len(m) >= 4
        /\ [p \in 1..4 |-> ToLower(m[Len(m) - 4 + p])] = DotCsv

RECURSIVE CsvMembersLastFirst(_)
CsvMembersLastFirst(members) ==
    IF members = <<>> THEN <<>>
    ELSE CsvMembersLastFirst(Tail(members))
            \o (IF EndsWithCsv(members[1].name) THEN <<members[1]>> ELSE <<>>)

\* members = [n for n in zf.namelist() if re.search(...)]
RECURSIVE CsvMembers(_)
CsvMembers(members) ==
    IF members = <<>> THEN <<>>
    ELSE (IF EndsWithCsv(members[1].name) THEN <<members[1]>> ELSE <<>>)
            \o CsvMembers(Tail(members))

\* the format dispatch of uncompress_and_parse (lines 56-64)
FormatKind(format_type) ==
    IF format_type = "df" THEN "df"
    ELSE IF format_type = "parquet" THEN "parquet"
    ELSE "invalid"

(***************************************************************************)
(* The pipeline.                                                           *)
(***************************************************************************)
NotRun == [err |-> "unset"]

NoCall == [op |-> "none"]
NoPage == [token |-> NoToken]
NoResponse == [status |-> "none"]
NoFile == [kind |-> "none", call |-> 0]
NoPayload == [token |-> NoToken, event |-> "none", selDlFileNo |-> NoId]

OutDir == [base |-> "out", n |-> 0]
TmpDir(n) == [base |-> "jpn_parquet_v2_", n |-> n]
NoDir == [base |-> "none", n |-> 0]

\* the reader's block sizes, in rows
BlockRows == {1, 2}

PrefInputs ==
    {<<"M", "i", "e">>, <<"m", "i", "e">>, <<"M", "I", "E">>, <<"m", "I", "e">>,
     <<"a", "l", "l">>, ShinKen, <<"A", "t", "l">>, <<>>}

DateArgs ==
    {None,
     <<"2", "0", "2", "6", "0", "2", "2", "0">>,
     <<"2", "0", "1", "9", "0", "4", "3", "0">>,
     <<"1", "9", "9", "9", "0", "1", "0", "1">>}

\* format, output_dir and partition_cols as the caller gives them
OutputArgs ==
    {[format |-> "df", output_dir |-> NoDir, partition_cols |-> None],
     [format |-> "parquet", output_dir |-> NoDir, partition_cols |-> <<>>],
     [format |-> "parquet", output_dir |-> OutDir,
      partition_cols |-> <<"prefecture_name">>],
     [format |-> "csv", output_dir |-> OutDir, partition_cols |-> None]}

Calls ==
    {[op |-> "download_all", prefecture |-> <<"A", "l", "l">>, date |-> None,
      out |-> o] : o \in OutputArgs}
    \cup {[op |-> "download_prefecture", prefecture |-> p, date |-> None,
           out |-> o] : p \in PrefInputs, o \in OutputArgs}
    \cup {[op |-> "download_diff", prefecture |-> <<>>, date |-> d,
           out |-> o] : d \in DateArgs, o \in OutputArgs}

IsDiff == call.op = "download_diff"


\* the call ends here, returning or raising r
Ends(r) ==
    /\ pc' = "done"
    /\ outcome' = r

\* download_all, download_prefecture or download_diff is called
Call ==
    /\ pc \in {"idle", "done"}
    /\ callNo < MaxCalls
    /\ \E c \in Calls : call' = c
    /\ callNo' = callNo + 1
    /\ pc' = "get"
    /\ response' = NoResponse
    /\ soup' = NoPage
    /\ token' = NoToken
    /\ payload' = NoPayload
    /\ post_status' = "none"
    /\ zip_path' = NoFile
    /\ csv_file_path' = NoFile
    /\ pending' = Nothing
    /\ outcome' = Nothing
    /\ gets' = 0
    /\ posts' = 0
    /\ trace' = <<>>
    /\ UNCHANGED <<files, dirs, dateVars, tableVars>>

\* _get_page_and_token(url)
_get_page_and_token ==
    /\ pc = "get"
    /\ gets' = gets + 1
    /\ trace' = Append(trace, "GET")
    /\ \/ \E e \in RequestFailures :
            /\ response' = [status |-> e]
            /\ Ends(OnRequestException(e))
            /\ UNCHANGED <<soup, token>>
       \/ \E page \in (IF IsDiff THEN SabunPages ELSE ZenkenPages) :
            /\ response' = [status |-> "ok", page |-> page]
            /\ IF TokenOf(page).kind = "raise"
               THEN /\ Ends(TokenOf(page))
                    /\ UNCHANGED <<soup, token>>
               ELSE /\ soup' = page
                    /\ token' = TokenOf(page).value
                    /\ pc' = "resolve"
                    /\ UNCHANGED outcome
    /\ UNCHANGED <<callNo, call, payload, post_status, zip_path, csv_file_path,
                   pending, files, dirs, posts, dateVars, tableVars>>

PayloadOfKeptToken(file_id) ==
    [token |-> "t1", event |-> "download", selDlFileNo |-> file_id]

\* the payload of the POST
PayloadOf(file_id) ==
    [token |-> token, event |-> "download", selDlFileNo |-> file_id]

\* _download_and_process, lines 119-131: the region catalog and the lookup
ResolveRegion ==
    /\ pc = "resolve"
    /\ ~IsDiff
    /\ trace' = Append(trace, "resolve")
    /\ LET pref_list == _fetch_zenken_file_ids(soup)
       IN  IF pref_list.err # "none"
           THEN Ends(Raise(pref_list.err)) /\ UNCHANGED payload
           ELSE LET file_id == RegionLookup(pref_list.ids, call.prefecture)
                IN  IF file_id.kind = "raise"
                    THEN Ends(file_id) /\ UNCHANGED payload
                    ELSE /\ payload' = PayloadOf(file_id.value)
                         /\ pc' = "post"
                         /\ UNCHANGED outcome
    /\ UNCHANGED <<callNo, call, response, soup, token, post_status, zip_path,
                   csv_file_path, pending, files, dirs, gets, posts, dateVars, tableVars>>

\* download_diff, lines 87-93: the date catalog and the lookup
ResolveDate ==
    /\ pc = "resolve"
    /\ IsDiff
    /\ trace' = Append(trace, "resolve")
    /\ LET r == _fetch_sabun_file_id(soup, call.date)
       IN  IF r.err # "none"
           THEN Ends(Raise(r.err)) /\ UNCHANGED payload
           ELSE /\ payload' = PayloadOf(r.file_id)
                /\ pc' = "post"
                /\ UNCHANGED outcome
    /\ UNCHANGED <<callNo, call, response, soup, token, post_status, zip_path,
                   csv_file_path, pending, files, dirs, gets, posts, dateVars, tableVars>>

ZipFile == [kind |-> "zip", call |-> callNo]
CsvFile == [kind |-> "csv", call |-> callNo]

\* the disk with file f holding content c
WithFile(f, c) == [g \in (DOMAIN files) \cup {f} |-> IF g = f THEN c ELSE files[g]]

WithoutFileNorArchive(f) == [g \in (DOMAIN files) \ {f, zip_path} |-> files[g]]

\* os.path.exists(f) and os.remove(f)
WithoutFile(f) == [g \in (DOMAIN files) \ {f} |-> files[g]]

\* _download_zip(base_url, payload)
_download_zip ==
    /\ pc = "post"
    /\ posts' = posts + 1
    /\ \/ \E e \in RequestFailures :
            \* the POST fails, or raise_for_status does: no temp file yet
            /\ post_status' = "refused"
            /\ trace' = Append(trace, "POST")
            /\ Ends(OnRequestException(e))
            /\ UNCHANGED <<zip_path, files>>
       \/ \E e \in StreamFailures :
            \* the temp file is created, then iter_content fails
            /\ post_status' = "broken"
            /\ trace' = trace \o <<"POST", "create_zip">>
            /\ files' = WithFile(ZipFile, TruncatedZip)
            /\ Ends(OnRequestException(e))
            /\ UNCHANGED zip_path
       \/ \E archive \in Archives :
            /\ post_status' = "ok"
            /\ trace' = trace \o <<"POST", "create_zip">>
            /\ files' = WithFile(ZipFile, archive)
            /\ zip_path' = ZipFile
            /\ pc' = "extract"
            /\ UNCHANGED outcome
    /\ UNCHANGED <<callNo, call, response, soup, token, payload, csv_file_path,
                   pending, dirs, gets, dateVars, tableVars>>

\* uncompress_and_parse, lines 33-53: the archive is opened, its first .csv
\* member found and streamed to a new temp file
Extract ==
    /\ pc = "extract"
    /\ LET zf == files[zip_path]
           members == CsvMembers(zf.members)
       IN  IF ~zf.valid
           THEN /\ pending' = Raise("BadZipFile")
                /\ trace' = Append(trace, "extract")
                /\ pc' = "cleanup"
                /\ UNCHANGED <<csv_file_path, files>>
           ELSE IF members = <<>>
           THEN /\ pending' = Raise("BadZipFile:nocsv")
                /\ trace' = Append(trace, "extract")
                /\ pc' = "cleanup"
                /\ UNCHANGED <<csv_file_path, files>>
           ELSE IF members[1].corrupt
           THEN \* the temp file exists when reading the member fails
                /\ pending' = Raise("BadZipFile")
                /\ trace' = trace \o <<"extract", "create_csv">>
                /\ files' = WithFile(CsvFile, <<>>)
                /\ pc' = "cleanup"
                /\ UNCHANGED csv_file_path
           ELSE /\ files' = WithFile(CsvFile, members[1].rows)
                /\ trace' = trace \o <<"extract", "create_csv">>
                /\ csv_file_path' = CsvFile
                /\ pc' = "materialize"
                /\ UNCHANGED pending
    /\ UNCHANGED <<callNo, call, response, soup, token, payload, post_status,
                   zip_path, outcome, dirs, gets, posts, dateVars, tableVars>>

\* the disk with directory d holding files fs
WithDir(d, fs) == [e \in (DOMAIN dirs) \cup {d} |-> IF e = d THEN fs ELSE dirs[e]]

\* uncompress_and_parse, lines 55-67: the data file is materialized in the
\* asked format, and removed whatever happens
Materialize ==
    /\ pc = "materialize"
    /\ LET csv == files[csv_file_path]
           kind == FormatKind(call.out.format)
           output_dir == IF call.out.output_dir = NoDir
                         THEN TmpDir(callNo) ELSE call.out.output_dir
           existing == IF output_dir \in DOMAIN dirs THEN dirs[output_dir]
                       ELSE NoFiles
       IN  \/ /\ kind = "df"
              /\ trace' = trace \o <<"materialize", "rm_csv">>
              /\ pending' = (IF _parse_to_df(csv).err # "none"
                             THEN Raise(_parse_to_df(csv).err)
                             ELSE Return([df |-> _parse_to_df(csv)]))
              /\ UNCHANGED dirs
           \/ /\ kind = "parquet"
              /\ trace' = trace \o <<"materialize", "rm_csv">>
              /\ \E n \in BlockRows :
                   LET w == _parse_to_parquet_dataset(csv, existing,
                                                 call.out.partition_cols, n)
                   IN  /\ dirs' = WithDir(output_dir, w.files)
                       /\ pending' = (IF w.err # "none" THEN Raise(w.err)
                                      ELSE Return([dir |-> output_dir]))
           \/ /\ kind = "invalid"
              /\ trace' = Append(trace, "rm_csv")
              /\ pending' = Raise("ValueError:format")
              /\ UNCHANGED dirs
    /\ files' = WithoutFile(csv_file_path)
    /\ pc' = "cleanup"
    /\ UNCHANGED <<callNo, call, response, soup, token, payload, post_status,
                   zip_path, csv_file_path, outcome, gets, posts, dateVars, tableVars>>

\* the finally of the client call (lines 104-106 and 142-144): the archive
\* is removed if it is there, then the call returns or raises
Cleanup ==
    /\ pc = "cleanup"
    /\ IF zip_path \in DOMAIN files
       THEN /\ files' = WithoutFile(zip_path)
            /\ trace' = Append(trace, "rm_zip")
       ELSE UNCHANGED <<files, trace>>
    /\ Ends(pending)
    /\ UNCHANGED <<callNo, call, response, soup, token, payload, post_status,
                   zip_path, csv_file_path, pending, dirs, gets, posts,
                   dateVars, tableVars>>

Next ==
    \/ Call
    \/ _get_page_and_token
    \/ ResolveRegion
    \/ ResolveDate
    \/ _download_zip
    \/ Extract
    \/ Materialize
    \/ Cleanup

\* no call made yet; the converter and the materializations are not
\* exercised on their own
Init ==
    /\ pc = "idle"
    /\ callNo = 0
    /\ call = NoCall
    /\ response = NoResponse
    /\ soup = NoPage
    /\ token = NoToken
    /\ payload = NoPayload
    /\ post_status = "none"
    /\ zip_path = NoFile
    /\ csv_file_path = NoFile
    /\ pending = Nothing
    /\ outcome = Nothing
    /\ files = [f \in {} |-> <<>>]
    /\ dirs = [d \in {} |-> NoFiles]
    /\ gets = 0
    /\ posts = 0
    /\ trace = <<>>
    /\ raw_date = <<>>
    /\ converted = Unset
    /\ t_csv = <<>>
    /\ t_existing = NoFiles
    /\ t_partition = None
    /\ t_block = 1
    /\ df_out = NotRun
    /\ ds_out = NotRun

Spec == Init /\ [][Next]_vars

(***************************************************************************)
(* SpecDate: the converter applied to generated texts.                     *)
(***************************************************************************)
GenDigits == {"0", "1"}

\* the digit strings of length lo..hi over GenDigits
DigitStrs(lo, hi) == UNION {[1..n -> GenDigits] : n \in lo..hi}

\* date-like segments: a marker (possibly broken), a year token, the year
\* suffix, month digits, the month suffix, day digits, the day suffix
Segments(eras) ==
    {era \o y \o <<"nen">> \o m \o <<"gatsu">> \o d \o <<"nichi">> :
        era \in eras,
        y \in DigitStrs(0, MaxYearDigits) \cup {<<"gan">>},
        m \in DigitStrs(0, MaxMonthDigits),
        d \in DigitStrs(0, MaxDayDigits)}

\* text before and after the segment
Contexts ==
    {[pre |-> <<>>, post |-> <<>>],
     [pre |-> <<"1">>, post |-> <<"x", "nichi">>],
     [pre |-> SampleReiwa, post |-> <<>>],
     [pre |-> SampleHeisei, post |-> <<>>],
     [pre |-> <<>>, post |-> SampleHeisei]}

\* texts with a suffix missing, doubled or replaced, or a glyph with digits
BrokenTexts ==
    {<<"rei", "wa", "1", "x", "1", "gatsu", "1", "nichi">>,
     <<"rei", "wa", "1", "nen", "1", "gatsu", "1">>,
     <<"hei", "sei", "gan", "1", "nen", "1", "gatsu", "1", "nichi">>,
     <<"hei", "sei", "1", "nen", "nen", "1", "gatsu", "1", "nichi">>,
     <<"wa", "rei", "1", "nen", "1", "gatsu", "1", "nichi">>,
     <<>>}

DateInputs(eras) ==
    {c.pre \o seg \o c.post : c \in Contexts, seg \in Segments(eras)}
        \cup BrokenTexts


\* _convert_japanese_date(raw_date) is called
Convert ==
    /\ converted = Unset
    /\ converted' = _convert_japanese_date(raw_date)
    /\ UNCHANGED <<raw_date, tableVars, pipeVars>>

\* a generated text to convert, and nothing else going on
DateInit ==
    /\ raw_date \in DateInputs({Reiwa, Heisei, <<"rei", "sei">>})
    /\ converted = Unset
    /\ t_csv = <<>>
    /\ t_existing = NoFiles
    /\ t_partition = None
    /\ t_block = 1
    /\ df_out = NotRun
    /\ ds_out = NotRun
    /\ pc = "idle"
    /\ callNo = 0
    /\ call = NoCall
    /\ response = NoResponse
    /\ soup = NoPage
    /\ token = NoToken
    /\ payload = NoPayload
    /\ post_status = "none"
    /\ zip_path = NoFile
    /\ csv_file_path = NoFile
    /\ pending = Nothing
    /\ outcome = Nothing
    /\ files = [f \in {} |-> <<>>]
    /\ dirs = [d \in {} |-> NoFiles]
    /\ gets = 0
    /\ posts = 0
    /\ trace = <<>>

SpecDate == DateInit /\ [][Convert]_vars

(***************************************************************************)
(* SpecTable: the two materializations applied to generated data files.    *)
(***************************************************************************)
TableRows ==
    {<<n, "a", pref>> : n \in NumericTexts, pref \in {"Mie", "Oita"}}

\* the accepted data files of 1..MaxRows rows, and one with a short row
TableFiles ==
    UNION {[1..k -> TableRows] : k \in 1..MaxRows} \cup {BadFile}

\* a file an earlier, unpartitioned write left in the output directory
StaleFiles ==
    [f \in {[dir |-> <<>>, part |-> 0]} |->
        [columns |-> headers,
         types |-> [c \in 1..Len(headers) |-> "string"],
         rows |-> OtherFile]]

PartitionArgs ==
    {None, <<>>, <<"prefecture_name">>, <<"prefecture_name", "corporate_number">>}


\* _parse_to_df(csv_file_path) is called
ParseDf ==
    /\ df_out = NotRun
    /\ df_out' = _parse_to_df(t_csv)
    /\ UNCHANGED <<t_csv, t_existing, t_partition, t_block, ds_out, dateVars,
                   pipeVars>>

\* _parse_to_parquet_dataset(csv_file_path, output_dir, partition_cols) is
\* called
ParseParquet ==
    /\ ds_out = NotRun
    /\ ds_out' = _parse_to_parquet_dataset(t_csv, t_existing, t_partition, t_block)
    /\ UNCHANGED <<t_csv, t_existing, t_partition, t_block, df_out, dateVars,
                   pipeVars>>

\* a generated data file to materialize, and nothing else going on
TableInit ==
    /\ t_csv \in TableFiles
    /\ t_existing \in {NoFiles, StaleFiles}
    /\ t_partition \in PartitionArgs
    /\ t_block \in 1..MaxRows
    /\ df_out = NotRun
    /\ ds_out = NotRun
    /\ raw_date = <<>>
    /\ converted = Unset
    /\ pc = "idle"
    /\ callNo = 0
    /\ call = NoCall
    /\ response = NoResponse
    /\ soup = NoPage
    /\ token = NoToken
    /\ payload = NoPayload
    /\ post_status = "none"
    /\ zip_path = NoFile
    /\ csv_file_path = NoFile
    /\ pending = Nothing
    /\ outcome = Nothing
    /\ files = [f \in {} |-> <<>>]
    /\ dirs = [d \in {} |-> NoFiles]
    /\ gets = 0
    /\ posts = 0
    /\ trace = <<>>

TableNext == ParseDf \/ ParseParquet

SpecTable == TableInit /\ [][TableNext]_vars

(***************************************************************************)
(* The era patterns, stated over positions of the text: the marker at i,   *)
(* the year suffix at j, the month suffix at k, the day suffix at l, and   *)
(* between them the year token, the month digits and the day digits.       *)
(***************************************************************************)
Positions(s, c) == {p \in 1..Len(s) : s[p] = c}

AllDigits(s, a, b) == a <= b /\ \A p \in a..b : s[p] \in DigitSet

Occurrences(s, marker) ==
    {o \in Positions(s, marker[1]) \X Positions(s, "nen")
            \X Positions(s, "gatsu") \X Positions(s, "nichi") :
        /\ At(s, o[1] + 1, marker[2])
        /\ \/ AllDigits(s, o[1] + 2, o[2] - 1)
           \/ (o[2] = o[1] + 3 /\ s[o[1] + 2] = "gan")
        /\ AllDigits(s, o[2] + 1, o[3] - 1)
        /\ AllDigits(s, o[3] + 1, o[4] - 1)}

\* the date the occurrence with the leftmost marker stands for
DateOf(s, marker, offset) ==
    LET occ == Occurrences(s, marker)
        o == CHOOSE a \in occ : \A b \in occ : a[1] <= b[1]
        eraYear == IF s[o[1] + 2] = "gan" THEN 1
                   ELSE ParseInt(SubSeq(s, o[1] + 2, o[2] - 1))
    IN  [year |-> offset + eraYear,
         month |-> ParseInt(SubSeq(s, o[2] + 1, o[3] - 1)),
         day |-> ParseInt(SubSeq(s, o[3] + 1, o[4] - 1))]

DateText(d) == ZeroPad(d.year, 4) \o ZeroPad(d.month, 2) \o ZeroPad(d.day, 2)

\* C2: for every input text, _convert_japanese_date returns the date with
\* year 2018 + era year if the text holds the Reiwa pattern, otherwise the
\* date with year 1988 + era year if it holds the Heisei pattern (the
\* first-year glyph counting as era year 1, month and day the parsed
\* numbers), and None if it holds neither.
C2_EraConversion ==
    converted # Unset =>
        converted =
            IF Occurrences(raw_date, Reiwa) # {}
                THEN DateText(DateOf(raw_date, Reiwa, 2018))
            ELSE IF Occurrences(raw_date, Heisei) # {}
                THEN DateText(DateOf(raw_date, Heisei, 1988))
            ELSE None

\* C2 witness: a text with a Heisei date before a first-year Reiwa date has
\* been converted, and to the Reiwa date
C2_Witness ==
    /\ converted = <<"2", "0", "1", "9", "0", "1", "1", "1">>
    /\ \E h \in Occurrences(raw_date, Heisei) :
           \E r \in Occurrences(raw_date, Reiwa) :
               h[1] < r[1] /\ raw_date[r[1] + 2] = "gan"

\* C3: a non-null result of _convert_japanese_date is exactly 8 decimal
\* digits (4 of year, 2 of month, 2 of day), for every year, month and day
\* digit string the patterns accept.
C3_EightDigits ==
    (converted # Unset /\ converted # None) =>
        (Len(converted) = 8 /\ \A p \in 1..Len(converted) : IsDigit(converted[p]))

(***************************************************************************)
(* Claims about the pipeline (Spec).                                       *)
(***************************************************************************)
InTrace(step) == \E i \in 1..Len(trace) : trace[i] = step

\* the temp files on disk that the current call created
OwnFiles == {f \in DOMAIN files : f.call = callNo}

\* C1: after any call of download_prefecture, download_all or download_diff
\* has ended, by returning or by raising, no temp file that call created
\* (archive or extracted CSV) is left on disk.
C1_NoTempFileLeft == pc = "done" => OwnFiles = {}

\* the keys of the region catalog of a well-formed full-snapshot page
CatalogKeys(page) ==
    {PrefMapGet(strip(page.rows[r].dt)) :
        r \in {q \in 1..Len(page.rows) : page.rows[q].onclick # NoId}}

ZenkenWellFormed(page) ==
    /\ page.token # NoToken
    /\ page.inBox21
    /\ page.tbl02 >= 2
    /\ \A r \in 1..Len(page.rows) : page.rows[r].dt # NoTag

\* C4: download_prefecture with a region whose normalized key is not in the
\* catalog resolved from the fetched page ends with the 'unexpected region'
\* ValueError, without a POST and without creating a temp file.
C4_UnknownRegion ==
    (/\ pc = "done"
     /\ call.op = "download_prefecture"
     /\ response.status = "ok"
     /\ ZenkenWellFormed(response.page)
     /\ capitalize(call.prefecture) \notin CatalogKeys(response.page))
    => (/\ outcome = Raise("ValueError:region")
        /\ posts = 0
        /\ ~InTrace("POST")
        /\ ~InTrace("create_zip")
        /\ ~InTrace("create_csv")
        /\ OwnFiles = {})

\* C4 witness: an unknown region was asked of a page with a catalog, and the
\* call has ended
C4_Witness ==
    /\ pc = "done"
    /\ call.op = "download_prefecture"
    /\ call.prefecture = <<"A", "t", "l">>
    /\ response.status = "ok"
    /\ ZenkenWellFormed(response.page)
    /\ CatalogKeys(response.page) # {}
    /\ outcome = Raise("ValueError:region")

\* the rows of the date catalog of a differential page
CatalogRows(page) == IF page.header /\ page.table THEN page.rows ELSE <<>>

\* C5: in download_diff, a requested date that no catalog row's converted date
\* equals ends the call with the 'no data for that date' ValueError; no
\* requested date and no catalog row with an identifier ends it with the 'no
\* latest entry' ValueError; no POST is issued in either case.
C5_DateLookupErrors ==
    (/\ pc = "done"
     /\ IsDiff
     /\ response.status = "ok"
     /\ response.page.token # NoToken)
    => LET rows == CatalogRows(response.page)
       IN  /\ (/\ call.date # None
               /\ \A r \in 1..Len(rows) :
                    \/ rows[r].th = NoTag
                    \/ _convert_japanese_date(strip(rows[r].th)) # call.date)
              => (outcome = Raise("ValueError:date") /\ posts = 0
                    /\ ~InTrace("POST"))
           /\ (/\ call.date = None
               /\ \A r \in 1..Len(rows) : rows[r].onclick = NoId)
              => (outcome = Raise("ValueError:latest") /\ posts = 0
                    /\ ~InTrace("POST"))

\* C5 witness: a date no row carries was asked of a page whose catalog has
\* dated rows with identifiers, and the call has ended
C5_Witness ==
    /\ pc = "done"
    /\ IsDiff
    /\ call.date = <<"1", "9", "9", "9", "0", "1", "0", "1">>
    /\ response.status = "ok"
    /\ response.page.token # NoToken
    /\ \E r \in 1..Len(CatalogRows(response.page)) :
          /\ CatalogRows(response.page)[r].onclick # NoId
          /\ CatalogRows(response.page)[r].th # NoTag
    /\ outcome = Raise("ValueError:date")

\* the fetched page lacks its catalog container
ContainerMissing(page) ==
    IF IsDiff THEN ~page.header \/ ~page.table
    ELSE ~page.inBox21 \/ page.tbl02 < 2

\* C6: a fetched page without the hidden token field, or without the catalog
\* container, ends the call in the fatal abort (SystemExit), as a transport
\* failure does, and not in a recoverable error.
C6_MalformedPageIsFatal ==
    (/\ pc = "done"
     /\ response.status = "ok"
     /\ (response.page.token = NoToken \/ ContainerMissing(response.page)))
    => outcome = Raise("SystemExit")

\* C7: a call issues at most one GET and at most one POST; a transport
\* failure of either is not retried and ends the call at once with
\* SystemExit, no later step of the pipeline being executed.
C7_NoRetryFatal ==
    /\ gets <= 1
    /\ posts <= 1
    /\ response.status \in RequestFailures
        => (/\ pc = "done"
            /\ outcome = Raise("SystemExit")
            /\ trace = <<"GET">>)
    /\ post_status \in {"refused", "broken"}
        => (/\ pc = "done"
            /\ outcome = Raise("SystemExit")
            /\ posts = 1
            /\ trace[Len(trace)] \in {"POST", "create_zip"}
            /\ ~InTrace("extract")
            /\ ~InTrace("materialize"))

\* C7 witness: the stream of the POST broke, and the call has ended
C7_Witness ==
    /\ pc = "done"
    /\ gets = 1
    /\ posts = 1
    /\ post_status = "broken"

\* C8: a call whose output mode is neither 'df' nor 'parquet' ends by
\* raising, never with a defaulted output, and the ValueError for the mode is
\* raised before the archive is downloaded and extracted.
C8_BadFormatFailsFast ==
    (pc = "done" /\ call.out.format \notin {"df", "parquet"})
    => (/\ outcome.kind = "raise"
        /\ outcome = Raise("ValueError:format")
              => (~InTrace("POST") /\ ~InTrace("extract")))

(***************************************************************************)
(* Claims about the materializations (SpecTable).                          *)
(***************************************************************************)
AllText(table) == \A c \in 1..Len(table.types) : table.types[c] = "string"

\* C9: for an accepted data file the output columns are the configured
\* headers, same count, names and order, all text-typed, in the in-memory
\* table and in every file of the dataset, whatever the block size and the
\* partition columns.
C9_SchemaExact ==
    /\ df_out.err = "none" => (df_out.columns = headers /\ AllText(df_out))
    /\ ds_out.err = "none" =>
          \A f \in DOMAIN ds_out.files :
              ds_out.files[f].columns = headers /\ AllText(ds_out.files[f])

RECURSIVE TotalRows(_)
\* the rows of all the files of a dataset directory
TotalRows(fs) ==
    IF DOMAIN fs = {} THEN 0
    ELSE LET f == CHOOSE g \in DOMAIN fs : TRUE
         IN  Len(fs[f].rows) + TotalRows([g \in (DOMAIN fs) \ {f} |-> fs[g]])

\* C10: for the same data file, the rows written by the dataset
\* materialization into an empty output directory, summed over all files and
\* partitions, are as many as the rows of the in-memory table.
C10_RowCountsAgree ==
    (df_out.err = "none" /\ ds_out.err = "none" /\ t_existing = NoFiles)
    => TotalRows(ds_out.files) = Len(df_out.rows)

\* C10 witness: a three-row file has been materialized both ways, the dataset
\* in blocks of two rows into two partitions and more than two files
C10_Witness ==
    /\ df_out.err = "none"
    /\ ds_out.err = "none"
    /\ t_existing = NoFiles
    /\ t_block = 2
    /\ Len(df_out.rows) = 3
    /\ Cardinality(DOMAIN ds_out.files) >= 3
    /\ Cardinality({f.dir : f \in DOMAIN ds_out.files}) >= 2

(***************************************************************************)
(* More claims about the pipeline (Spec).                                  *)
(***************************************************************************)
\* a and b are the same text up to the case of their letters
CaseVariant(a, b) ==
    /\ Len(a) = Len(b)
    /\ \A p \in 1..Len(a) : ToLower(a[p]) = ToLower(b[p])

\* the identifier the region catalog of a page holds for key k: that of the
\* last row carrying the key and an identifier
CatalogId(page, k) ==
    LET carrying == {r \in 1..Len(page.rows) :
                        /\ page.rows[r].onclick # NoId
                        /\ PrefMapGet(strip(page.rows[r].dt)) = k}
    IN  page.rows[CHOOSE r \in carrying : \A q \in carrying : q <= r].onclick

\* the key is in capitalized form: no upper-case letter after its first
\* character and no lower-case letter as its first (a caseless name is)
CapitalizedForm(k) ==
    \A p \in 1..Len(k) : k[p] = (IF p = 1 THEN ToUpper(k[p]) ELSE ToLower(k[p]))

\* the region lookup of this call has selected the identifier of key k
Selects(k) ==
    /\ outcome # Raise("ValueError:region")
    /\ InTrace("resolve")
    /\ payload = [token |-> response.page.token, event |-> "download",
                  selDlFileNo |-> CatalogId(response.page, k)]

\* the full-snapshot call has fetched a page with a catalog and looked the
\* region up
RegionLookedUp ==
    /\ pc \in {"post", "extract", "materialize", "cleanup", "done"}
    /\ ~IsDiff
    /\ response.status = "ok"
    /\ ZenkenWellFormed(response.page)

\* C11 as stated: for every key of the resolved region catalog and every
\* upper/lower-case variant of the key given as the region, the lookup
\* succeeds and selects that key's file identifier.
C11_AnyKeyAnyCase ==
    RegionLookedUp =>
        \A k \in CatalogKeys(response.page) :
            CaseVariant(call.prefecture, k) => Selects(k)

\* C11 amended: for every key of the resolved region catalog that is in
\* capitalized form (every translated name of PREF_MAP is, and so is a
\* caseless name passed through) and every upper/lower-case variant of the
\* key given as the region, the lookup succeeds and selects that key's file
\* identifier.
C11_CapitalizedKeyAnyCase ==
    RegionLookedUp =>
        \A k \in CatalogKeys(response.page) :
            (CapitalizedForm(k) /\ CaseVariant(call.prefecture, k)) => Selects(k)

\* C11 witness: the region was given in mixed case, the page's catalog holds
\* its capitalized form, and the POST carried that key's identifier
C11_Witness ==
    /\ pc = "done"
    /\ call.op = "download_prefecture"
    /\ call.prefecture = <<"m", "I", "e">>
    /\ response.status = "ok"
    /\ ZenkenWellFormed(response.page)
    /\ <<"M", "i", "e">> \in CatalogKeys(response.page)
    /\ posts = 1
    /\ payload.selDlFileNo = "00024"

\* the last four characters of the name are .csv, in any case
NameEndsInCsv(n) ==
    /\ Len(n) >= 4
    /\ \A p \in 1..4 : ToLower(n[Len(n) - 4 + p]) = DotCsv[p]

\* the positions of the archive's members whose names end in .csv
DataMembers(zf) ==
    {i \in 1..Len(zf.members) : NameEndsInCsv(zf.members[i].name)}

\* a recoverable error: an exception raised to the caller, as the ValueError
\* of a user error is, and not the SystemExit of a fatal abort
Recoverable(o) == o.kind = "raise" /\ o.exc # "SystemExit"

\* C12: when the downloaded archive opens and none of its members has a name
\* ending in .csv (in any case), uncompress_and_parse raises the 'no CSV
\* found' error without creating the extracted-data temp file, and the client
\* call ends with that error, an exception and not SystemExit.
C12_NoDataFile ==
    /\ (/\ pc = "cleanup"
         /\ zip_path \in DOMAIN files
         /\ files[zip_path].valid
         /\ DataMembers(files[zip_path]) = {})
        => (/\ pending = Raise("BadZipFile:nocsv")
            /\ csv_file_path = NoFile
            /\ ~InTrace("create_csv")
            /\ ~InTrace("materialize")
            /\ \A f \in OwnFiles : f.kind # "csv")
    /\ (pc = "done" /\ pending = Raise("BadZipFile:nocsv"))
        => (/\ outcome = Raise("BadZipFile:nocsv")
            /\ Recoverable(outcome)
            /\ ~InTrace("create_csv")
            /\ \A f \in OwnFiles : f.kind # "csv")

\* C12 witness: an archive without a .csv member was downloaded, and the call
\* has ended with the 'no CSV found' error
C12_Witness ==
    /\ pc = "done"
    /\ post_status = "ok"
    /\ InTrace("extract")
    /\ outcome = Raise("BadZipFile:nocsv")
    /\ OwnFiles = {}

\* the place of a step in the pipeline
StepRank(step) ==
    CASE step = "GET" -> 1
      [] step = "resolve" -> 2
      [] step = "POST" -> 3
      [] step = "create_zip" -> 4
      [] step = "extract" -> 5
      [] step = "create_csv" -> 6
      [] step = "materialize" -> 7
      [] step = "rm_csv" -> 8
      [] step = "rm_zip" -> 9

\* the file identifiers the catalog of a page holds
IdsOn(page) ==
    IF IsDiff
    THEN {CatalogRows(page)[r].onclick : r \in 1..Len(CatalogRows(page))} \ {NoId}
    ELSE IF page.inBox21 /\ page.tbl02 >= 2
         THEN {page.rows[r].onclick : r \in 1..Len(page.rows)} \ {NoId}
         ELSE {}

\* C13: in every call the steps occur in the order GET, resolve, POST,
\* extract, materialize, cleanup, none without the ones before it and a
\* returning call with all of them; a POST is issued only after the one,
\* successful GET of the same call, with the token of that GET's page and a
\* file identifier of that page's catalog.
C13_OrderAndFreshness ==
    /\ \A i, j \in 1..Len(trace) :
          i < j => StepRank(trace[i]) < StepRank(trace[j])
    /\ InTrace("resolve") => InTrace("GET")
    /\ InTrace("POST") => InTrace("resolve")
    /\ InTrace("extract") => InTrace("POST")
    /\ InTrace("materialize") => InTrace("extract")
    /\ InTrace("rm_zip") => InTrace("extract")
    /\ (pc = "done" /\ outcome.kind = "return")
        => \A step \in {"GET", "resolve", "POST", "extract", "materialize",
                         "rm_zip"} : InTrace(step)
    /\ (posts > 0 \/ InTrace("POST") \/ pc \in {"post", "extract", "materialize", "cleanup"})
        => (/\ gets = 1
            /\ response.status = "ok"
            /\ response.page.token # NoToken
            /\ payload.token = response.page.token
            /\ payload.event = "download"
            /\ payload.selDlFileNo \in IdsOn(response.page))

\* C13 witness: a second call has run all its steps and returned, its POST
\* carrying the token of the page it fetched
C13_Witness ==
    /\ callNo = 2
    /\ pc = "done"
    /\ outcome.kind = "return"
    /\ trace = <<"GET", "resolve", "POST", "create_zip", "extract",
                 "create_csv", "materialize", "rm_csv", "rm_zip">>
    /\ response.page.token = "t2"
    /\ payload.token = "t2"

\* the entries of the date catalog of a page: the positions of the rows with
\* a header cell, a data cell and an identifier
Entries(page) ==
    {r \in 1..Len(CatalogRows(page)) :
        /\ CatalogRows(page)[r].th # NoTag
        /\ CatalogRows(page)[r].td
        /\ CatalogRows(page)[r].onclick # NoId}

\* the canonical date of entry r (None when its text holds no era date)
EntryDate(page, r) == _convert_japanese_date(strip(CatalogRows(page)[r].th))

\* the entries the request can be answered with: all of them when no date is
\* asked, else those whose converted date equals the asked one
Candidates(page, date) ==
    IF date = None THEN Entries(page)
    ELSE {r \in Entries(page) : EntryDate(page, r) = date}

\* C14: in download_diff the file identifier used for the download is that
\* of the first entry of the date catalog in document order when no date is
\* asked, whether or not its date text converts, and that of the first entry
\* whose converted date equals the asked date otherwise, never an entry whose
\* date converts to None.
C14_FirstRowWins ==
    (/\ IsDiff
     /\ InTrace("resolve")
     /\ response.status = "ok"
     /\ Candidates(response.page, call.date) # {})
    => LET cand == Candidates(response.page, call.date)
           first == CHOOSE r \in cand : \A q \in cand : r <= q
       IN  /\ outcome \notin {Raise("ValueError:date"), Raise("ValueError:latest")}
           /\ payload.selDlFileNo = CatalogRows(response.page)[first].onclick
           /\ call.date # None => EntryDate(response.page, first) # None

\* C14 witness: a date was asked of a page whose first entry does not
\* convert and which has two entries of that date, and the download used the
\* first of the two
C14_Witness ==
    /\ pc = "done"
    /\ IsDiff
    /\ posts = 1
    /\ response.status = "ok"
    /\ 1 \in Entries(response.page)
    /\ EntryDate(response.page, 1) = None
    /\ call.date = <<"2", "0", "2", "6", "0", "2", "2", "0">>
    /\ Cardinality(Candidates(response.page, call.date)) = 2
    /\ payload.selDlFileNo = "10004"

\* the first member, in listing order, whose name ends in .csv
FirstDataMember(zf) ==
    zf.members[CHOOSE i \in DataMembers(zf) : \A j \in DataMembers(zf) : i <= j]

\* the archive of this call is on disk, opens, and holds two or more members
\* whose names end in .csv, the first of them readable
SeveralDataMembers ==
    /\ pc \in {"materialize", "cleanup"}
    /\ zip_path \in DOMAIN files
    /\ files[zip_path].valid
    /\ Cardinality(DataMembers(files[zip_path])) >= 2
    /\ ~FirstDataMember(files[zip_path]).corrupt

\* C15: when the archive holds two or more members whose names end in .csv
\* (in any case), extraction does not fail: the extracted file holds the
\* content of the first such member in listing order, and that content alone
\* is materialized (the rows of the returned table, the rows written to a
\* fresh dataset directory); members without the suffix are ignored.
C15_FirstDataMember ==
    SeveralDataMembers =>
        LET target == FirstDataMember(files[zip_path])
        IN  /\ InTrace("create_csv")
            /\ pending \notin {Raise("BadZipFile"), Raise("BadZipFile:nocsv")}
            /\ pc = "materialize"
                 => (/\ csv_file_path \in DOMAIN files
                     /\ files[csv_file_path] = target.rows)
            /\ (pc = "cleanup" /\ pending.kind = "return" /\ call.out.format = "df")
                 => pending.value.df.rows = target.rows
            /\ (/\ pc = "cleanup"
                 /\ pending.kind = "return"
                 /\ call.out.format = "parquet"
                 /\ call.out.output_dir = NoDir)
                 => TotalRows(dirs[pending.value.dir]) = Len(target.rows)

\* C15 witness: an archive listing a member without the suffix, then two
\* with it, was extracted and the first suffixed member returned as a table
C15_Witness ==
    /\ SeveralDataMembers
    /\ pc = "cleanup"
    /\ 1 \notin DataMembers(files[zip_path])
    /\ pending.kind = "return"
    /\ call.out.format = "df"
    /\ pending.value.df.rows = GoodFile

\* how often a step occurs in the trace of the call
Count(step) == Cardinality({i \in 1..Len(trace) : trace[i] = step})

\* the temp files of a kind that a step takes off the disk
Removed(kind) == {f \in (DOMAIN files) \ (DOMAIN files') : f.kind = kind}

\* while uncompress_and_parse runs, and until the client's finally, the
\* archive the download returned is on disk
ArchiveKept ==
    pc \in {"extract", "materialize", "cleanup"}
        => (zip_path = ZipFile /\ zip_path \in DOMAIN files)

\* a call whose download succeeded has removed its archive once, as its last
\* step, and the extracted file at most once, after the materialization
RemovedOnce ==
    (pc = "done" /\ post_status = "ok")
        => (/\ zip_path \notin DOMAIN files
            /\ Count("rm_zip") = 1
            /\ trace[Len(trace)] = "rm_zip"
            /\ Count("rm_csv") <= 1
            /\ \A i, j \in 1..Len(trace) :
                  (trace[i] = "rm_csv" /\ trace[j] = "materialize") => j < i)

\* C16: uncompress_and_parse never deletes the archive it is given: the
\* archive is on disk from the end of the download until uncompress_and_parse
\* has returned or raised, and is then removed, once, by the finally of the
\* call that downloaded it; the extracted CSV temp file is removed only by
\* uncompress_and_parse, at most once, and not before the materialization
\* has ended.
C16_TempFileOwnership ==
    [][/\ Removed("zip") # {}
            => (/\ pc = "cleanup"
                /\ pending # Nothing
                /\ Removed("zip") = {zip_path}
                /\ zip_path.call = callNo)
       /\ Removed("csv") # {}
            => (/\ pc = "materialize"
                /\ pending' # Nothing
                /\ Removed("csv") = {csv_file_path}
                /\ csv_file_path.call = callNo)
       /\ ArchiveKept'
       /\ RemovedOnce']_vars

\* C16 witness: a call has extracted, materialized and returned, the
\* extracted file removed after the materialization and the archive last
C16_Witness ==
    /\ pc = "done"
    /\ post_status = "ok"
    /\ outcome.kind = "return"
    /\ SubSeq(trace, Len(trace) - 2, Len(trace)) = <<"materialize", "rm_csv", "rm_zip">>
    /\ OwnFiles = {}
====
